---------------------------- MODULE Spec2Model ----------------------------
(***************************************************************************)
(* A model of the ForexFactory calendar scraper (src/ffs.py): the scrape   *)
(* session of scrap(), the resume-point reader get_start_dt() working on   *)
(* the bytes of the dataset file, the window calculator get_next_dt() and  *)
(* the per-row date/time resolution.                                       *)
(*                                                                         *)
(* Date-times are records [year, month, day, hour, minute, second, off];   *)
(* off is the UTC offset in whole hours of a fixed-offset zone (the zones  *)
(* the program builds with gettz('UTC-5'), gettz('UTC'), gettz('GMT+1')).  *)
(* Text (time tokens, the dataset's bytes) is a sequence of one-character  *)
(* strings.                                                                *)
(***************************************************************************)
EXTENDS Integers, Sequences, FiniteSets, TLC

\* The element of a one-element set: The({f(x) : x \in {e}}) is f(e), with e
\* evaluated once however often f uses x.
The(S) == CHOOSE x \in S : TRUE

(***************************************************************************)
(* Calendar arithmetic of Python's datetime (proleptic Gregorian).         *)
(***************************************************************************)
IsLeap(y) == (y % 4 = 0) /\ ((y % 100 # 0) \/ (y % 400 = 0))

DaysInMonth(y, m) ==
    IF m = 2 THEN (IF IsLeap(y) THEN 29 ELSE 28)
    ELSE IF m \in {4, 6, 9, 11} THEN 30 ELSE 31

DaysBeforeYear(y) ==
    (y - 1) * 365 + ((y - 1) \div 4) - ((y - 1) \div 100) + ((y - 1) \div 400)

RECURSIVE DaysBeforeMonth(_, _)
DaysBeforeMonth(y, m) ==
    IF m = 1 THEN 0 ELSE DaysBeforeMonth(y, m - 1) + DaysInMonth(y, m - 1)

\* date.toordinal(): 0001-01-01 is day 1.
ToOrdinal(d) == DaysBeforeYear(d.year) + DaysBeforeMonth(d.year, d.month) + d.day

\* The years the model's date arithmetic may land in.
YearRange == 2000 .. 2040

\* date.fromordinal(n) as [year, month, day]: the year holding day n, then
\* the month holding the year's day r.
OrdYear(n) == CHOOSE y \in YearRange : DaysBeforeYear(y) < n /\ n <= DaysBeforeYear(y + 1)

MonthOfYearDay(y, r) ==
    CHOOSE m \in 1 .. 12 :
        DaysBeforeMonth(y, m) < r /\ r <= DaysBeforeMonth(y, m) + DaysInMonth(y, m)

YmdOfYearDay(y, r) ==
    The({[year |-> y, month |-> m, day |-> r - DaysBeforeMonth(y, m)] :
            m \in {MonthOfYearDay(y, r)}})

YmdOfYear(n, y) == The({YmdOfYearDay(y, r) : r \in {n - DaysBeforeYear(y)}})

FromOrdinal(n) == The({YmdOfYear(n, y) : y \in {OrdYear(n)}})

\* datetime(...) with a fixed-offset tzinfo.
DateTime(y, mo, d, h, mi, s, off) ==
    [year |-> y, month |-> mo, day |-> d, hour |-> h, minute |-> mi,
     second |-> s, off |-> off]

\* Python's None where a datetime is expected.
None == DateTime(0, 0, 0, 0, 0, 0, 0)

\* The marker of a call that raised instead of returning a datetime.
Raised == DateTime(-1, 0, 0, 0, 0, 0, 0)

\* datetime + timedelta(days=n): local fields move, the zone stays.
AddDays(dt, n) ==
    The({[dt EXCEPT !.year = d.year, !.month = d.month, !.day = d.day] :
            d \in {The({FromOrdinal(o) : o \in {ToOrdinal(dt) + n}})}})

\* The instant a zoned date-time denotes, in seconds since the first day of
\* YearRange (aware datetimes compare by instant).
Instant(dt) ==
    ((((ToOrdinal(dt) - DaysBeforeYear(2000)) * 24 + dt.hour - dt.off) * 60)
        + dt.minute) * 60 + dt.second

\* datetime.date() compared as an ordinal: the local calendar day.
DateOf(dt) == ToOrdinal(dt)

\* datetime.astimezone(tz) between fixed-offset zones.
DayShift(h) == IF h < 0 THEN -1 ELSE IF h >= 24 THEN 1 ELSE 0

astimezone(dt, off) ==
    The({[AddDays(dt, DayShift(h)) EXCEPT !.hour = h - 24 * DayShift(h), !.off = off] :
            h \in {dt.hour + (off - dt.off)}})

(***************************************************************************)
(* Text: sequences of one-character strings.                               *)
(***************************************************************************)
Digit == <<"0", "1", "2", "3", "4", "5", "6", "7", "8", "9">>

IsDigit(c) == \E i \in 1 .. 10 : Digit[i] = c

DigitVal(c) == (CHOOSE i \in 1 .. 10 : Digit[i] = c) - 1

Pad2(n) == <<Digit[(n \div 10) + 1], Digit[(n % 10) + 1]>>

Pad4(n) == Pad2(n \div 100) \o Pad2(n % 100)

\* Python's s[a:b] for 0 <= a, clipped to the text.
Slice(s, a, b) ==
    LET hi == IF b > Len(s) THEN Len(s) ELSE b
    IN  IF a >= hi THEN <<>> ELSE SubSeq(s, a + 1, hi)

\* Python's `sub in s`.
Contains(s, sub) ==
    \E i \in 0 .. (Len(s) - Len(sub)) : Slice(s, i, i + Len(sub)) = sub

RECURSIVE DigitsValue(_)
DigitsValue(s) ==
    IF s = <<>> THEN 0
    ELSE 10 * DigitsValue(SubSeq(s, 1, Len(s) - 1)) + DigitVal(s[Len(s)])

\* int(s) for a text of ASCII digits; -1 stands for the ValueError of any
\* other text the model's tokens can produce (empty, letters, ':').
IntOf(s) ==
    IF s # <<>> /\ \A i \in 1 .. Len(s) : IsDigit(s[i]) THEN DigitsValue(s) ELSE -1

int(text) == The({IntOf(s) : s \in {text}})

\* str.strip(): the text without its leading and trailing whitespace.
Whitespace == {" ", "\t", "\r", "\n"}

RECURSIVE lstrip(_)
lstrip(s) == IF s # <<>> /\ s[1] \in Whitespace THEN lstrip(Tail(s)) ELSE s

RECURSIVE rstrip(_)
rstrip(s) ==
    IF s # <<>> /\ s[Len(s)] \in Whitespace THEN rstrip(SubSeq(s, 1, Len(s) - 1)) ELSE s

strip(s) == rstrip(lstrip(s))

\* csv.reader on one line of unquoted fields: the fields between the commas
\* (an empty line is the empty row); cur is the field being read at index k.
RECURSIVE ReadFields(_, _, _)
ReadFields(line, k, cur) ==
    IF k > Len(line) THEN <<cur>>
    ELSE IF line[k] = "," THEN <<cur>> \o ReadFields(line, k + 1, <<>>)
    ELSE ReadFields(line, k + 1, Append(cur, line[k]))

csv_reader(line) == IF line = <<>> THEN <<>> ELSE ReadFields(line, 1, <<>>)

\* str(datetime) of an aware datetime without microseconds:
\* "YYYY-MM-DD HH:MM:SS+HH:MM", 25 characters.
FormatDt(dt) ==
    Pad4(dt.year) \o <<"-">> \o Pad2(dt.month) \o <<"-">> \o Pad2(dt.day) \o <<" ">>
    \o Pad2(dt.hour) \o <<":">> \o Pad2(dt.minute) \o <<":">> \o Pad2(dt.second)
    \o <<(IF dt.off < 0 THEN "-" ELSE "+")>>
    \o Pad2(IF dt.off < 0 THEN -dt.off ELSE dt.off) \o <<":", "0", "0">>

\* datetime.fromisoformat(s) on the texts the reader can hand it: the 25
\* characters of a written timestamp parse, a shorter or damaged text raises
\* ValueError (Raised).  Offsets are whole hours in every file the program
\* writes, so the offset's minutes are read and dropped.
fromisoformat(s) ==
    LET num(a, b) == int(Slice(s, a, b))
        shape == /\ Len(s) = 25
                 /\ s[5] = "-" /\ s[8] = "-" /\ s[11] = " "
                 /\ s[14] = ":" /\ s[17] = ":" /\ s[20] \in {"+", "-"} /\ s[23] = ":"
                 /\ \A i \in (1 .. 25) \ {5, 8, 11, 14, 17, 20, 23} : IsDigit(s[i])
    IN  IF ~shape THEN Raised
        ELSE IF \/ num(0, 4) < 1 \/ num(5, 7) \notin 1 .. 12
                \/ num(8, 10) \notin 1 .. DaysInMonth(num(0, 4), num(5, 7))
                \/ num(11, 13) > 23 \/ num(14, 16) > 59 \/ num(17, 19) > 59
                \/ num(20, 22) > 23 \/ num(23, 25) > 59
             THEN Raised
        ELSE DateTime(num(0, 4), num(5, 7), num(8, 10), num(11, 13), num(14, 16),
                      num(17, 19),
                      IF s[20] = "-" THEN -num(20, 22) ELSE num(20, 22))

(***************************************************************************)
(* Time-Window Calculator.                                                 *)
(***************************************************************************)
\* get_next_dt with a "week" mode that clears the time but adds no days.
get_next_dt_WeekStalls(date, mode) ==
    CASE mode = "month" ->
             [date EXCEPT !.year = date.year + (date.month \div 12),
                          !.month = (date.month % 12) + 1,
                          !.day = 1, !.hour = 0, !.minute = 0]
      [] mode = "week" -> [date EXCEPT !.hour = 0, !.minute = 0]
      [] mode = "day" -> AddDays([date EXCEPT !.hour = 0, !.minute = 0], 1)
      [] OTHER -> Raised

\* get_next_dt whose "month" mode drops the year carry of divmod(month, 12).
get_next_dt_NoYearCarry(date, mode) ==
    CASE mode = "month" ->
             [date EXCEPT !.month = (date.month % 12) + 1,
                          !.day = 1, !.hour = 0, !.minute = 0]
      [] mode = "week" -> AddDays([date EXCEPT !.hour = 0, !.minute = 0], 7)
      [] mode = "day" -> AddDays([date EXCEPT !.hour = 0, !.minute = 0], 1)
      [] OTHER -> Raised

\* get_next_dt(date, mode); Raised is the ValueError of an improper mode.
get_next_dt(date, mode) ==
    CASE mode = "month" ->
             [date EXCEPT !.year = date.year + (date.month \div 12),
                          !.month = (date.month % 12) + 1,
                          !.day = 1, !.hour = 0, !.minute = 0]
      [] mode = "week" -> AddDays([date EXCEPT !.hour = 0, !.minute = 0], 7)
      [] mode = "day" -> AddDays([date EXCEPT !.hour = 0, !.minute = 0], 1)
      [] OTHER -> Raised

MonthAbbr == <<"jan", "feb", "mar", "apr", "may", "jun",
               "jul", "aug", "sep", "oct", "nov", "dec">>

\* dt_to_str(date, mode): the window token; ok = FALSE is the ValueError of
\* an improper mode.
dt_to_str(date, mode) ==
    IF mode = "month"
    THEN [ok |-> TRUE, mon |-> MonthAbbr[date.month], day |-> 0, year |-> date.year]
    ELSE IF mode \in {"week", "day"}
    THEN [ok |-> TRUE, mon |-> MonthAbbr[date.month], day |-> date.day,
          year |-> date.year]
    ELSE [ok |-> FALSE, mon |-> "", day |-> 0, year |-> 0]

(***************************************************************************)
(* The dataset file forex_factory_catalog.csv.  A file is [exists, chunks]; *)
(* a chunk is one record as csv.writer wrote it, [dt, len]: the first len  *)
(* bytes of the record's line (len = LineLen for a whole line, less for    *)
(* the tail a killed write left).  The reader works on the file's bytes.   *)
(***************************************************************************)
\* writer.writerow([str(dt), '', '', '', '', '', '']) with newline='':
\* the timestamp, six commas, "\r\n".
RenderLine(dt) == FormatDt(dt) \o <<",", ",", ",", ",", ",", ",", "\r", "\n">>

LineLen == Len(RenderLine(None))

ChunkBytes(c) == SubSeq(RenderLine(c.dt), 1, c.len)

RECURSIVE FileBytes(_)
FileBytes(chunks) ==
    IF chunks = <<>> THEN <<>>
    ELSE FileBytes(SubSeq(chunks, 1, Len(chunks) - 1)) \o ChunkBytes(chunks[Len(chunks)])

NoFile == [exists |-> FALSE, chunks |-> <<>>]

\* The while loop of get_start_dt: pos is the 0-based position the next
\* read(1) reads, remaining the iterations left.  The position of the byte
\* the loop stops on, or -1 when it runs out.
RECURSIVE ScanBack(_, _, _)
ScanBack(bytes, pos, remaining) ==
    IF remaining <= 0 THEN -1
    ELSE IF bytes[pos + 1] = "\n" THEN pos
    ELSE ScanBack(bytes, pos - 1, remaining - 1)

\* file.readline() from 0-based position pos: up to and with the next "\n",
\* or to the end of the file.
LineEnd(bytes, ends) ==
    IF ends = {} THEN Len(bytes) ELSE CHOOSE j \in ends : \A k \in ends : j <= k

readline(bytes, pos) ==
    The({Slice(bytes, pos, LineEnd(bytes, ends)) :
            ends \in {{j \in (pos + 1) .. Len(bytes) : bytes[j] = "\n"}}})

Epoch(tz) == DateTime(2007, 1, 1, 0, 0, 0, tz)

\* get_start_dt(timezone) on the file f: [ret, file], ret = Raised when
\* fromisoformat raises (the file is then left as it was).
\* Lines 192-198: the scan stopped on a newline at position found (the last
\* line is read and parsed), or ran out (found = -1: the file is truncated).
AfterScan(f, bytes, found, tz) ==
    IF found >= 0
    THEN [ret |-> The({fromisoformat(s) :
                          s \in {Slice(readline(bytes, found + 1), 0, 25)}}),
          file |-> f]
    ELSE [ret |-> Epoch(tz), file |-> [f EXCEPT !.chunks = <<>>]]

\* Lines 188-199 on the file's bytes; file_size is the size less 2.
ReadTail(f, bytes, file_size, tz) ==
    IF file_size > 0
    THEN The({AfterScan(f, bytes, found, tz) :
                 found \in {ScanBack(bytes, Len(bytes) - 2, file_size)}})
    ELSE [ret |-> Epoch(tz), file |-> f]

get_start_dt(f, tz) ==
    IF ~f.exists THEN [ret |-> Epoch(tz), file |-> f]
    ELSE The({ReadTail(f, bytes, Len(bytes) - 2, tz) : bytes \in {FileBytes(f.chunks)}})

(***************************************************************************)
(* Row Extractor: the body of the row loop of scrap().  A row is           *)
(* [day_str, time]: the text of its date cell (NoLabel when the cell is    *)
(* missing or blank) and of its time cell (<<>> when missing or blank).    *)
(***************************************************************************)
WeekdayAbbr == {"Mon", "Tue", "Wed", "Thu", "Fri", "Sat", "Sun"}

MonthName == <<"Jan", "Feb", "Mar", "Apr", "May", "Jun",
               "Jul", "Aug", "Sep", "Oct", "Nov", "Dec">>

\* A day label "<a> <b> <d>", e.g. "Tue Jan 2".
Label(a, b, d) == [a |-> a, b |-> b, d |-> d]

NoLabel == Label("", "", 0)

\* datetime.strptime(year + ',' + day_str, '%Y,%a %b %d').replace(tzinfo=tz);
\* Raised when the label does not match the format or names no day of the year.
strptime(year, day_str, tz) ==
    IF /\ day_str.a \in WeekdayAbbr
       /\ \E m \in 1 .. 12 : /\ MonthName[m] = day_str.b
                             /\ day_str.d \in 1 .. DaysInMonth(year, m)
    THEN DateTime(year, CHOOSE m \in 1 .. 12 : MonthName[m] = day_str.b, day_str.d,
                  0, 0, 0, tz)
    ELSE Raised

\* Lines 105-117: the day label.  [lvd, err]: the last valid date after the
\* label, and whether the inner except logged a date error.
LabelYear(lvd, start_date) ==
    IF lvd = None THEN start_date.year ELSE get_next_dt(lvd, "day").year

Labelled(lvd, parsed) ==
    IF parsed = Raised THEN [lvd |-> lvd, err |-> TRUE]
    ELSE [lvd |-> parsed, err |-> FALSE]

ResolveDate(row, lvd, start_date, tz) ==
    IF row.day_str = NoLabel THEN [lvd |-> lvd, err |-> FALSE]
    ELSE The({Labelled(lvd, parsed) :
                 parsed \in {The({strptime(year, row.day_str, tz) :
                                     year \in {LabelYear(lvd, start_date)}})}})

TDay == <<"D", "a", "y">>

TData == <<"D", "a", "t", "a">>

Tpm == <<"p", "m">>

\* Clock without the "% 12" of line 135: 12 o'clock tokens keep hour 12.
Clock_NoMod12(lvd, hh, mm, pm) ==
    IF hh < 0 \/ mm < 0 \/ mm > 59 THEN Raised
    ELSE [lvd EXCEPT !.hour = hh + pm, !.minute = mm, !.second = 0]

\* Lines 135-137: replace(hour=hh % 12 + 12 * pm, minute=mm, second=0) with
\* hh, mm the int() of the token's slices (-1: int() raised).
Clock(lvd, hh, mm, pm) ==
    IF hh < 0 \/ mm < 0 \/ mm > 59 THEN Raised
    ELSE [lvd EXCEPT !.hour = (hh % 12) + pm, !.minute = mm, !.second = 0]

\* Lines 134-137 for the index shift i of a 7-character token.
ClockAt(lvd, time, i) ==
    The({Clock(lvd, hh, mm, IF Slice(time, 4 + i, Len(time)) = Tpm THEN 12 ELSE 0) :
            hh \in {int(Slice(time, 0, 1 + i))}, mm \in {int(Slice(time, 2 + i, 4 + i))}})

\* Lines 128-137: the time token applied to the last valid date; Raised when
\* int() or replace() raises ValueError.
ResolveTime(lvd, time) ==
    IF Contains(time, TDay)
    THEN [lvd EXCEPT !.hour = 23, !.minute = 59, !.second = 59]
    ELSE IF Contains(time, TData)
    THEN [lvd EXCEPT !.hour = 0, !.minute = 0, !.second = 1]
    ELSE ClockAt(lvd, time, IF Len(time) = 7 THEN 1 ELSE 0)

\* Line 155: the 00:00:01 marker raises ValueError.
NoDataMarker(lvd) == lvd.second = 1

\* The cursor test of line 157 with "<" for "<=".
AlreadySeen_Strict(lvd, start_date) == Instant(lvd) < Instant(start_date)

\* Line 157: not after the cursor.
AlreadySeen(lvd, start_date) == Instant(lvd) <= Instant(start_date)

\* Line 160: dated after today.
AfterToday(lvd, today) == DateOf(lvd) > today

\* Lines 103-170 for one row: [lvd, dateErr, how], how being
\*   "undated" (continue, line 154), "raise" (the outer except logs the row),
\*   "seen" (continue, line 158), "break" (line 161) or "write" (line 162).
\* Lines 153-166: the checks on the resolved date l.
Verdict(l, start_date, today) ==
    IF l = None THEN "undated"
    ELSE IF NoDataMarker(l) THEN "raise"
    ELSE IF AlreadySeen(l, start_date) THEN "seen"
    ELSE IF AfterToday(l, today) THEN "break"
    ELSE "write"

\* Lines 118-166 given the label's result d and the time's result t.
Timed(d, t, start_date, today) ==
    IF t = Raised THEN [lvd |-> d.lvd, dateErr |-> d.err, how |-> "raise"]
    ELSE [lvd |-> t, dateErr |-> d.err, how |-> Verdict(t, start_date, today)]

\* Line 127: the time cell applies when it is not blank and a date is known.
Dated(row, d, start_date, today) ==
    The({Timed(d, t, start_date, today) :
            t \in {IF row.time # <<>> /\ d.lvd # None THEN ResolveTime(d.lvd, row.time)
                   ELSE d.lvd}})

HandleRow(row, lvd, start_date, today, tz) ==
    The({Dated(row, d, start_date, today) :
            d \in {ResolveDate(row, lvd, start_date, tz)}})

(***************************************************************************)
(* The inputs the model draws from.                                        *)
(***************************************************************************)
\* The most rows the pages of one session carry, all windows together.
MaxRows == 2

\* scrap(gettz('UTC-5'), debug=False): the target zone and the debug flag.
timezone == -5

debug == FALSE

\* The display zones get_timezone may detect (gettz('UTC') is its default).
FFZones == {0, -5}

\* "Now" in the target zone when the session starts.
NowChoices == {DateTime(2007, 1, 9, 10, 0, 0, timezone)}

\* Day labels a page may show: today, tomorrow, and a label that does not parse.
Labels == {NoLabel, Label("Tue", "Jan", 9), Label("Wed", "Jan", 10),
           Label("Tue", "Foo", 9)}

\* Time tokens a page may show: blank, "All Day", "No Data", four clock
\* tokens, and "Tentative" (no clock token: int() raises).
Tokens == {<<>>,
           <<"A", "l", "l", " ", "D", "a", "y">>,
           <<"N", "o", " ", "D", "a", "t", "a">>,
           <<"7", ":", "3", "0", "a", "m">>,
           <<"7", ":", "3", "0", "p", "m">>,
           <<"1", "2", ":", "0", "5", "a", "m">>,
           <<"1", "2", ":", "0", "5", "p", "m">>,
           <<"T", "e", "n", "t", "a", "t", "i", "v", "e">>}

Rows == [day_str : Labels, time : Tokens]

\* table_row before the first row of the session.
NoRow == [day_str |-> NoLabel, time |-> <<"-">>]

Whole(dt) == [dt |-> dt, len |-> LineLen]

\* The tail a write killed after n bytes leaves.
Torn(dt, n) == [dt |-> dt, len |-> n]

File(chunks) == [exists |-> TRUE, chunks |-> chunks]

Rec1 == DateTime(2007, 1, 8, 19, 5, 0, timezone)

Rec2 == DateTime(2007, 1, 9, 2, 30, 0, timezone)

\* The dataset a session may find: absent, empty, one or two whole lines, a
\* torn tail alone or after whole lines.
InitFiles == {NoFile, File(<<>>), File(<<Whole(Rec1)>>),
              File(<<Whole(Rec1), Whole(Rec2)>>),
              File(<<Torn(Rec1, 7)>>),
              File(<<Whole(Rec1), Torn(Rec2, 7)>>),
              File(<<Whole(Rec1), Whole(Rec2), Torn(Rec2, 7)>>)}

(***************************************************************************)
(* The scrape session: scrap().                                            *)
(***************************************************************************)
VARIABLES pc, driver, ff_timezone, start_date, today, week_count, date_url,
          last_valid_date, table_row, rows_left, rows_fetched, file, errors,
          exc, now, file0, cursor0, appended

scrapVars == <<pc, driver, ff_timezone, start_date, today, week_count, date_url,
               last_valid_date, table_row, rows_left, rows_fetched, file, errors,
               exc, now, file0, cursor0, appended>>

\* The state of the programs run beside the scrape session.
\* The window calculator on its own: get_next_dt's mode and the cursors it
\* returned.
VARIABLES cal_mode, cal_dates

calVars == <<cal_mode, cal_dates>>

CalIdle == cal_mode = "" /\ cal_dates = <<>>

\* The cleanup utility (dataset_util.py): its position u_pc, the content at
\* the paths original_file and dummy_file (a sequence of lines, or Absent),
\* the locals of the marking loop (seen, lineNumbers, reader_i) and of
\* delete_multiple_lines (counter, is_skipped); runs counts the runs begun,
\* input0 is the content the first run found, output1 the content it left.
VARIABLES u_pc, original_file, dummy_file, seen, lineNumbers, reader_i, counter,
          is_skipped, runs, input0, output1

utilVars == <<u_pc, original_file, dummy_file, seen, lineNumbers, reader_i, counter,
              is_skipped, runs, input0, output1>>

Absent == [exists |-> FALSE]

UtilIdle ==
    /\ u_pc = "off"
    /\ original_file = Absent
    /\ dummy_file = Absent
    /\ seen = {}
    /\ lineNumbers = <<>>
    /\ reader_i = 0
    /\ counter = 0
    /\ is_skipped = FALSE
    /\ runs = 0
    /\ input0 = Absent
    /\ output1 = Absent

\* The resume-point reader called twice: the dataset res_file (res_file0 as
\* found), the fallback zone res_tz and what the calls returned, res_rets.
VARIABLES res_file, res_file0, res_tz, res_rets

resVars == <<res_file, res_file0, res_tz, res_rets>>

ResIdle == res_file = NoFile /\ res_file0 = NoFile /\ res_tz = 0 /\ res_rets = <<>>

\* The converter (csv_to_json.py): the lines of the input csvfile, the
\* number row_num of the row last read and the events collected.
VARIABLES csvfile, row_num, events

convVars == <<csvfile, row_num, events>>

ConvIdle == csvfile = <<>> /\ row_num = 0 /\ events = <<>>

\* The row loop of one window on its own: the window's cursor lab_start,
\* the last valid date lab_lvd, the page position lab_at of the last day
\* label shown, and the labelled rows so far with their resolved dates.
VARIABLES lab_start, lab_lvd, lab_at, lab_dates

labVars == <<lab_start, lab_lvd, lab_at, lab_dates>>

LabIdle == lab_start = None /\ lab_lvd = None /\ lab_at = 0 /\ lab_dates = <<>>

\* Scrape sessions against a site with a calendar: the source events site
\* (in display order), the rows of the fetched page not yet handled (page,
\* each with the event it shows), the records the session appended with
\* their events (written), and the number of the session (sessions).
VARIABLES site, page, written, sessions

siteVars == <<site, page, written, sessions>>

SiteIdle == site = <<>> /\ page = <<>> /\ written = <<>> /\ sessions = 0

toolVars == <<calVars, utilVars, resVars, convVars, labVars, siteVars>>

ToolsIdle == CalIdle /\ UtilIdle /\ ResIdle /\ ConvIdle /\ LabIdle /\ SiteIdle

vars == <<scrapVars, toolVars>>

\* pc: "start", "get_timezone", "get_start_dt", "loop", "fetch", "rows", and
\* the ends "done" (break), "returned" (line 82), "failed" (an exception left
\* scrap).
Ends == {"done", "returned", "failed"}

NoUrl == [ok |-> FALSE, mon |-> "", day |-> 0, year |-> 0]

Init ==
    /\ pc = "start"
    /\ driver = [state |-> "none", quits |-> 0]
    /\ ff_timezone = 0
    /\ start_date = None
    /\ today = 0
    /\ week_count = 0
    /\ date_url = NoUrl
    /\ last_valid_date = None
    /\ table_row = NoRow
    /\ rows_left = 0
    /\ rows_fetched = 0
    /\ file \in InitFiles
    /\ errors = <<>>
    /\ exc = "none"
    /\ now \in NowChoices
    /\ file0 = file
    /\ cursor0 = None
    /\ appended = <<>>
    /\ ToolsIdle

\* No scrape session is running (the other programs are run on their own).
ScrapIdle ==
    /\ pc = "off"
    /\ driver = [state |-> "none", quits |-> 0]
    /\ ff_timezone = 0
    /\ start_date = None
    /\ today = 0
    /\ week_count = 0
    /\ date_url = NoUrl
    /\ last_valid_date = None
    /\ table_row = NoRow
    /\ rows_left = 0
    /\ rows_fetched = 0
    /\ file = NoFile
    /\ errors = <<>>
    /\ exc = "none"
    /\ now = None
    /\ file0 = NoFile
    /\ cursor0 = None
    /\ appended = <<>>

\* driver.quit()
driver_quit(d) == [state |-> "quit", quits |-> d.quits + 1]

\* A session that quits the driver after the loop only, with no finally.
Leave_NoFinally(how, d) == IF how = "done" THEN driver_quit(d) ELSE d

\* try: ... finally: driver.quit() (lines 67, 176-177): leaving the try block
\* by break ("done"), return ("returned") or an exception ("failed").
Leave(how, d) == driver_quit(d)

\* Line 66: driver = setup_driver()
SetupDriver ==
    /\ pc = "start"
    /\ driver' = [state |-> "open", quits |-> 0]
    /\ pc' = "get_timezone"
    /\ UNCHANGED <<ff_timezone, start_date, today, week_count, date_url,
                   last_valid_date, table_row, rows_left, rows_fetched, file, errors,
                   exc, now,
                   file0, cursor0, appended>>
    /\ UNCHANGED toolVars

\* Line 68: ff_timezone = get_timezone(driver)
GetTimezone ==
    /\ pc = "get_timezone"
    /\ \E tz \in FFZones : ff_timezone' = tz
    /\ pc' = "get_start_dt"
    /\ UNCHANGED <<driver, start_date, today, week_count, date_url,
                   last_valid_date, table_row, rows_left, rows_fetched, file, errors,
                   exc, now,
                   file0, cursor0, appended>>
    /\ UNCHANGED toolVars

\* Line 68 when driver.get of the time-zone page raises.
GetTimezoneRaises ==
    /\ pc = "get_timezone"
    /\ exc' = "get_timezone"
    /\ driver' = Leave("failed", driver)
    /\ pc' = "failed"
    /\ UNCHANGED <<ff_timezone, start_date, today, week_count, date_url,
                   last_valid_date, table_row, rows_left, rows_fetched, file, errors,
                   now,
                   file0, cursor0, appended>>
    /\ UNCHANGED toolVars

\* Lines 69-72: the resume point, and today.
GetStartDt ==
    /\ pc = "get_start_dt"
    /\ \E r \in {get_start_dt(file, ff_timezone)} :
           IF r.ret = Raised
           THEN /\ exc' = "get_start_dt"
                /\ driver' = Leave("failed", driver)
                /\ pc' = "failed"
                /\ UNCHANGED <<start_date, today, file, cursor0>>
           ELSE /\ start_date' = r.ret
                /\ cursor0' = r.ret
                /\ file' = r.file
                /\ today' = DateOf(now)
                /\ pc' = "loop"
                /\ UNCHANGED <<exc, driver>>
    /\ week_count' = 0
    /\ UNCHANGED <<ff_timezone, date_url, last_valid_date, table_row, rows_left,
                   rows_fetched, errors, now, file0, appended>>
    /\ UNCHANGED toolVars

\* Lines 73-83: the top of the while loop.
Loop ==
    /\ pc = "loop"
    /\ IF DateOf(start_date) > today
       THEN /\ pc' = "done"
            /\ driver' = Leave("done", driver)
            /\ UNCHANGED date_url
       ELSE \E url \in {dt_to_str(start_date, "week")} :
                IF ~url.ok
                THEN /\ pc' = "returned"
                     /\ driver' = Leave("returned", driver)
                     /\ UNCHANGED date_url
                ELSE /\ pc' = "fetch"
                     /\ date_url' = url
                     /\ UNCHANGED driver
    /\ UNCHANGED <<ff_timezone, start_date, today, week_count, last_valid_date,
                   table_row, rows_left, rows_fetched, file, errors, exc, now, file0,
                   cursor0, appended>>
    /\ UNCHANGED toolVars

\* Line 85 when driver.get raises: no except clause catches it.
FetchRaises ==
    /\ pc = "fetch"
    /\ exc' = "fetch"
    /\ driver' = Leave("failed", driver)
    /\ pc' = "failed"
    /\ UNCHANGED <<ff_timezone, start_date, today, week_count, date_url,
                   last_valid_date, table_row, rows_left, rows_fetched, file, errors,
                   now,
                   file0, cursor0, appended>>
    /\ UNCHANGED toolVars

\* Lines 85-93: the page has no calendar table.
FetchNoTable ==
    /\ pc = "fetch"
    /\ errors' = errors \o <<"No calendar table found", "HTML snapshot">>
    /\ start_date' = get_next_dt(start_date, "week")
    /\ pc' = "loop"
    /\ UNCHANGED <<driver, ff_timezone, today, week_count, date_url,
                   last_valid_date, table_row, rows_left, rows_fetched, file, exc, now,
                   file0, cursor0, appended>>
    /\ UNCHANGED toolVars

\* Lines 85-101: the page has a calendar table of n rows.
FetchTable ==
    /\ pc = "fetch"
    /\ \E n \in 0 .. (MaxRows - rows_fetched) :
          /\ rows_left' = n
          /\ rows_fetched' = rows_fetched + n
          /\ errors' = IF n = 0
                       THEN errors \o <<"No calendar rows found", "Table HTML snapshot">>
                       ELSE errors
    /\ last_valid_date' = None
    /\ pc' = "rows"
    /\ UNCHANGED <<driver, ff_timezone, start_date, today, week_count, date_url,
                   table_row, file, exc, now, file0, cursor0, appended>>
    /\ UNCHANGED toolVars

\* Lines 162-166: append one record to the dataset.
writerow(f, lvd) ==
    [exists |-> TRUE, chunks |-> Append(f.chunks, Whole(astimezone(lvd, timezone)))]

\* Lines 102-170: one pass of the row loop.
ProcessRow ==
    /\ pc = "rows"
    /\ rows_left > 0
    /\ \E row \in Rows :
          \E h \in {HandleRow(row, last_valid_date, start_date, today, ff_timezone)} :
              /\ table_row' = row
              /\ last_valid_date' = h.lvd
              /\ errors' = errors
                           \o (IF h.dateErr THEN <<"Error parsing date">> ELSE <<>>)
                           \o (IF h.how = "raise" THEN <<"Error">> ELSE <<>>)
              /\ file' = IF h.how = "write" THEN writerow(file, h.lvd) ELSE file
              /\ appended' = IF h.how = "write"
                             THEN Append(appended, [row |-> row, lvd |-> h.lvd])
                             ELSE appended
              /\ rows_left' = IF h.how = "break" THEN 0 ELSE rows_left - 1
    /\ UNCHANGED <<pc, driver, ff_timezone, start_date, today, week_count,
                   date_url, rows_fetched, exc, now, file0, cursor0>>
    /\ UNCHANGED toolVars

\* Lines 171-175: after the row loop.
EndWindow ==
    /\ pc = "rows"
    /\ rows_left = 0
    /\ week_count' = week_count + 1
    /\ IF debug /\ week_count' >= 4
       THEN /\ pc' = "done"
            /\ driver' = Leave("done", driver)
            /\ UNCHANGED start_date
       ELSE /\ start_date' = get_next_dt(start_date, "week")
            /\ pc' = "loop"
            /\ UNCHANGED driver
    /\ UNCHANGED <<ff_timezone, today, date_url, last_valid_date, table_row,
                   rows_left, rows_fetched, file, errors, exc, now, file0, cursor0, appended>>
    /\ UNCHANGED toolVars

Next ==
    \/ SetupDriver
    \/ GetTimezone
    \/ GetTimezoneRaises
    \/ GetStartDt
    \/ Loop
    \/ FetchRaises
    \/ FetchNoTable
    \/ FetchTable
    \/ ProcessRow
    \/ EndWindow

Spec == Init /\ [][Next]_vars

\* The session is sequential code: it keeps taking steps until it ends.
FairSpec == Spec /\ WF_vars(Next)

(***************************************************************************)
(* The window calculator on its own: get_next_dt applied again and again   *)
(* to a cursor.                                                            *)
(***************************************************************************)
\* The most calls of get_next_dt in a row.
MaxCalls == 3

\* Modes: the three of the docstring and one that is none of them.
CalModes == {"day", "week", "month", "year"}

\* Days a cursor may lie on: month ends, December, leap and common February.
CalDays == {<<2007, 1, 31>>, <<2007, 2, 28>>, <<2008, 2, 28>>, <<2008, 2, 29>>,
            <<2007, 11, 30>>, <<2007, 12, 1>>, <<2007, 12, 25>>, <<2007, 12, 31>>}

CalTimes == {<<0, 0, 0>>, <<10, 30, 15>>, <<23, 59, 59>>}

CalCursors ==
    {DateTime(d[1], d[2], d[3], t[1], t[2], t[3], timezone) : d \in CalDays, t \in CalTimes}

CalInit ==
    /\ ScrapIdle
    /\ UtilIdle
    /\ ResIdle
    /\ ConvIdle
    /\ LabIdle
    /\ SiteIdle
    /\ cal_mode \in CalModes
    /\ \E c \in CalCursors : cal_dates = <<c>>

\* get_next_dt(date, mode) returns the next cursor.
NextDt ==
    /\ cal_mode # ""
    /\ Len(cal_dates) <= MaxCalls
    /\ cal_dates[Len(cal_dates)] # Raised
    /\ \E n \in {get_next_dt(cal_dates[Len(cal_dates)], cal_mode)} :
          /\ n # Raised
          /\ cal_dates' = Append(cal_dates, n)
    /\ UNCHANGED <<cal_mode, scrapVars, utilVars, resVars, convVars, labVars, siteVars>>

\* get_next_dt(date, mode) raises ValueError (line 219).
NextDtRaises ==
    /\ cal_mode # ""
    /\ Len(cal_dates) <= MaxCalls
    /\ cal_dates[Len(cal_dates)] # Raised
    /\ get_next_dt(cal_dates[Len(cal_dates)], cal_mode) = Raised
    /\ cal_dates' = Append(cal_dates, Raised)
    /\ UNCHANGED <<cal_mode, scrapVars, utilVars, resVars, convVars, labVars, siteVars>>

CalNext == NextDt \/ NextDtRaises

CalSpec == CalInit /\ [][CalNext]_vars

(***************************************************************************)
(* The cleanup utility: dataset_util.py.                                   *)
(***************************************************************************)
\* The most whole record lines of the dataset the utility is run on.
MaxLines == 5

\* Record lines "date,currency,event" the scraper may have written: two
\* records, and a record with nothing but its date (a blank and an empty
\* field).
LineA == <<"1", ",", "U", ",", "x">>

LineB == <<"2", ",", "E", ",", "y">>

LineD == <<"2", ",", " ", ",">>

\* The tails a killed write may have left after the last whole line.
TornTails == {<<"2">>, <<"1", ",", "U">>}

RECURSIVE SeqsUpTo(_, _)
SeqsUpTo(S, n) ==
    IF n = 0 THEN {<<>>}
    ELSE SeqsUpTo(S, n - 1) \cup {Append(q, x) : q \in SeqsUpTo(S, n - 1), x \in S}

Datasets ==
    {q : q \in SeqsUpTo({LineA, LineB, LineD}, MaxLines)}
        \cup {Append(q, t) : q \in SeqsUpTo({LineA, LineB, LineD}, MaxLines),
                              t \in TornTails}

Content(lines) == [exists |-> TRUE, lines |-> lines]

\* Line 36 with a "not field" for "not field.strip()".
DateOnly_NoStrip(row) == row[1] # <<>> /\ \A k \in 2 .. Len(row) : row[k] = <<>>

\* Line 36: row[0] and all(not field.strip() for field in row[1:]).
DateOnly(row) == row[1] # <<>> /\ \A k \in 2 .. Len(row) : strip(row[k]) = <<>>

\* Lines 36-43 for row at index idx: the line numbers and the seen set after it.
MarkRow(row, idx, nums, sn) ==
    IF DateOnly(row) THEN [lineNumbers |-> Append(nums, idx), seen |-> sn]
    ELSE IF row \in sn THEN [lineNumbers |-> Append(nums, idx), seen |-> sn]
    ELSE [lineNumbers |-> nums, seen |-> sn \cup {row}]

InNumbers(n, nums) == \E k \in 1 .. Len(nums) : nums[k] = n

UtilInit ==
    /\ ScrapIdle
    /\ CalIdle
    /\ ResIdle
    /\ ConvIdle
    /\ LabIdle
    /\ SiteIdle
    /\ u_pc = "scan"
    /\ \E d \in Datasets : original_file = Content(d)
    /\ dummy_file = Absent
    /\ seen = {}
    /\ lineNumbers = <<>>
    /\ reader_i = 0
    /\ counter = 0
    /\ is_skipped = FALSE
    /\ runs = 1
    /\ input0 = original_file
    /\ output1 = Absent

\* Lines 34-43: one pass of the marking loop.
ScanRow ==
    /\ u_pc = "scan"
    /\ reader_i < Len(original_file.lines)
    /\ \E m \in {MarkRow(csv_reader(original_file.lines[reader_i + 1]), reader_i,
                          lineNumbers, seen)} :
          /\ lineNumbers' = m.lineNumbers
          /\ seen' = m.seen
    /\ reader_i' = reader_i + 1
    /\ UNCHANGED <<u_pc, original_file, dummy_file, counter, is_skipped, runs,
                   input0, output1, scrapVars, calVars, resVars, convVars, labVars, siteVars>>

\* Lines 44, 10-15: the reader is exhausted; delete_multiple_lines returns
\* at once for no line numbers, else opens the file and its '.bak'.
CallDelete ==
    /\ u_pc = "scan"
    /\ reader_i = Len(original_file.lines)
    /\ is_skipped' = FALSE
    /\ counter' = 0
    /\ IF lineNumbers = <<>>
       THEN /\ u_pc' = "end"
            /\ output1' = IF runs = 1 THEN original_file ELSE output1
            /\ UNCHANGED dummy_file
       ELSE /\ u_pc' = "copy"
            /\ dummy_file' = Content(<<>>)
            /\ UNCHANGED output1
    /\ UNCHANGED <<original_file, seen, lineNumbers, reader_i, runs, input0,
                   scrapVars, calVars, resVars, convVars, labVars, siteVars>>

\* Lines 16-21: one line copied or skipped.
CopyLine ==
    /\ u_pc = "copy"
    /\ counter < Len(original_file.lines)
    /\ IF ~InNumbers(counter, lineNumbers)
       THEN /\ dummy_file' = Content(Append(dummy_file.lines,
                                            original_file.lines[counter + 1]))
            /\ UNCHANGED is_skipped
       ELSE /\ is_skipped' = TRUE
            /\ UNCHANGED dummy_file
    /\ counter' = counter + 1
    /\ UNCHANGED <<u_pc, original_file, seen, lineNumbers, reader_i, runs, input0,
                   output1, scrapVars, calVars, resVars, convVars, labVars, siteVars>>

\* Lines 15, 22, 25-26: both files are closed; with nothing skipped the
\* '.bak' is removed.
CloseFiles ==
    /\ u_pc = "copy"
    /\ counter = Len(original_file.lines)
    /\ IF is_skipped
       THEN /\ u_pc' = "remove"
            /\ UNCHANGED <<dummy_file, output1>>
       ELSE /\ u_pc' = "end"
            /\ dummy_file' = Absent
            /\ output1' = IF runs = 1 THEN original_file ELSE output1
    /\ UNCHANGED <<original_file, seen, lineNumbers, reader_i, counter, is_skipped,
                   runs, input0, scrapVars, calVars, resVars, convVars, labVars, siteVars>>

\* Line 23: os.remove(original_file)
RemoveOriginal ==
    /\ u_pc = "remove"
    /\ original_file' = Absent
    /\ u_pc' = "rename"
    /\ UNCHANGED <<dummy_file, seen, lineNumbers, reader_i, counter, is_skipped,
                   runs, input0, output1, scrapVars, calVars, resVars, convVars, labVars, siteVars>>

\* Line 24: os.rename(dummy_file, original_file)
RenameDummy ==
    /\ u_pc = "rename"
    /\ original_file' = dummy_file
    /\ dummy_file' = Absent
    /\ u_pc' = "end"
    /\ output1' = IF runs = 1 THEN dummy_file ELSE output1
    /\ UNCHANGED <<seen, lineNumbers, reader_i, counter, is_skipped, runs, input0,
                   scrapVars, calVars, resVars, convVars, labVars, siteVars>>

\* The utility is run a second time, on what the first run left.
RunAgain ==
    /\ u_pc = "end"
    /\ runs = 1
    /\ runs' = 2
    /\ u_pc' = "scan"
    /\ seen' = {}
    /\ lineNumbers' = <<>>
    /\ reader_i' = 0
    /\ UNCHANGED <<original_file, dummy_file, counter, is_skipped, input0, output1,
                   scrapVars, calVars, resVars, convVars, labVars, siteVars>>

UtilNext ==
    \/ ScanRow
    \/ CallDelete
    \/ CopyLine
    \/ CloseFiles
    \/ RemoveOriginal
    \/ RenameDummy
    \/ RunAgain

UtilSpec == UtilInit /\ [][UtilNext]_vars

(***************************************************************************)
(* The resume-point reader called twice on a dataset nothing else writes.  *)
(***************************************************************************)
\* Datasets: absent, or up to two whole lines, then no tail, a tail torn
\* inside the date, or a tail torn after the timestamp.
ResTails == {<<>>, <<Torn(Rec1, 7)>>, <<Torn(Rec2, 7)>>, <<Torn(Rec2, 27)>>}

ResFiles ==
    {NoFile} \cup {File(q \o t) : q \in SeqsUpTo({Whole(Rec1), Whole(Rec2)}, 2),
                                   t \in ResTails}

ResInit ==
    /\ ScrapIdle
    /\ CalIdle
    /\ UtilIdle
    /\ ConvIdle
    /\ LabIdle
    /\ SiteIdle
    /\ res_file \in ResFiles
    /\ res_file0 = res_file
    /\ res_tz \in FFZones
    /\ res_rets = <<>>

\* get_start_dt(timezone) returns a cursor.
CallStartDt ==
    /\ Len(res_rets) < 2
    /\ \E r \in {get_start_dt(res_file, res_tz)} :
          /\ r.ret # Raised
          /\ res_rets' = Append(res_rets, r.ret)
          /\ res_file' = r.file
    /\ UNCHANGED <<res_file0, res_tz, scrapVars, calVars, utilVars, convVars, labVars, siteVars>>

\* get_start_dt(timezone) raises (fromisoformat, line 194).
CallStartDtRaises ==
    /\ Len(res_rets) < 2
    /\ \E r \in {get_start_dt(res_file, res_tz)} :
          /\ r.ret = Raised
          /\ res_rets' = Append(res_rets, Raised)
          /\ res_file' = r.file
    /\ UNCHANGED <<res_file0, res_tz, scrapVars, calVars, utilVars, convVars, labVars, siteVars>>

ResNext == CallStartDt \/ CallStartDtRaises

ResSpec == ResInit /\ [][ResNext]_vars

(***************************************************************************)
(* The converter: csv_to_json.py.                                          *)
(***************************************************************************)
\* The most lines of the CSV file converted.
MaxCsvRows == 3

\* Line 40.
column_names == <<"date", "country", "impact", "title", "actual", "forecast", "previous">>

\* Lines of the input: an empty line, a line of blank cells, a line of seven
\* cells with whitespace around some, a line of three cells and one of eight.
CsvEmpty == <<>>

CsvBlank == <<" ", ",", ",", " ">>

CsvSeven == <<" ", "d", " ", ",", "U", " ", ",", "H", ",", "t", " ", "n", ",", "5", ",", "4",
              ",", "3">>

CsvThree == <<"d", ",", " ", ",", "H">>

CsvEight == <<"d", ",", "U", ",", "H", ",", "t", ",", "5", ",", "4", ",", "3", ",", "x">>

CsvFiles == SeqsUpTo({CsvEmpty, CsvBlank, CsvSeven, CsvThree, CsvEight}, MaxCsvRows)

\* Line 50: not row or all(cell.strip() == '' for cell in row)
EmptyRow(row) == row = <<>> \/ \A k \in 1 .. Len(row) : strip(row[k]) = <<>>

\* Lines 54-55: while len(row) < 7: row.append('')
Padded(row) == IF Len(row) < 7 THEN row \o [k \in 1 .. (7 - Len(row)) |-> <<>>] ELSE row

\* The event of lines 58-63 with row[i] for row[i].strip().
EventOf_NoStrip(row) ==
    [name \in {column_names[k] : k \in 1 .. 7} |->
        Padded(row)[CHOOSE k \in 1 .. 7 : column_names[k] = name]]

\* Lines 54-63: the event of a row.
EventOf(row) ==
    [name \in {column_names[k] : k \in 1 .. 7} |->
        strip(Padded(row)[CHOOSE k \in 1 .. 7 : column_names[k] = name])]

ConvInit ==
    /\ ScrapIdle
    /\ CalIdle
    /\ UtilIdle
    /\ ResIdle
    /\ LabIdle
    /\ SiteIdle
    /\ csvfile \in CsvFiles
    /\ row_num = 0
    /\ events = <<>>

\* Lines 48-51: the next row is empty and skipped.
SkipRow ==
    /\ row_num < Len(csvfile)
    /\ EmptyRow(csv_reader(csvfile[row_num + 1]))
    /\ row_num' = row_num + 1
    /\ UNCHANGED <<csvfile, events, scrapVars, calVars, utilVars, resVars, labVars, siteVars>>

\* Lines 48-65: the next row becomes an event.
AppendEvent ==
    /\ row_num < Len(csvfile)
    /\ ~EmptyRow(csv_reader(csvfile[row_num + 1]))
    /\ events' = Append(events, EventOf(csv_reader(csvfile[row_num + 1])))
    /\ row_num' = row_num + 1
    /\ UNCHANGED <<csvfile, scrapVars, calVars, utilVars, resVars, labVars, siteVars>>

ConvNext == SkipRow \/ AppendEvent

ConvSpec == ConvInit /\ [][ConvNext]_vars

(***************************************************************************)
(* The row loop of one window over the turn of a year.                     *)
(***************************************************************************)
\* The day labels of the week page of 28 December 2008 to 3 January 2009, in
\* page order.
LabDays == <<Label("Sun", "Dec", 28), Label("Mon", "Dec", 29), Label("Tue", "Dec", 30),
             Label("Wed", "Dec", 31), Label("Thu", "Jan", 1), Label("Fri", "Jan", 2),
             Label("Sat", "Jan", 3)>>

\* The window's cursor: the Monday the weekly steps from the epoch start
\* reach, or a cursor resumed from a record of that week.
LabCursors == {DateTime(2008, 12, 29, 0, 0, 0, timezone),
               DateTime(2008, 12, 30, 2, 30, 0, timezone)}

\* Time tokens of the rows.
LabTokens == {<<>>, <<"A", "l", "l", " ", "D", "a", "y">>, <<"7", ":", "3", "0", "a", "m">>}

\* today when the window is scraped.
LabToday == ToOrdinal(DateTime(2009, 1, 5, 0, 0, 0, timezone))

LabInit ==
    /\ ScrapIdle
    /\ CalIdle
    /\ UtilIdle
    /\ ResIdle
    /\ ConvIdle
    /\ SiteIdle
    /\ lab_start \in LabCursors
    /\ lab_lvd = None
    /\ lab_at = 0
    /\ lab_dates = <<>>

\* Lines 102-170 for a row that shows the next day label of the page, or a
\* later one (days without rows show no label).
LabelledRow ==
    \E k \in (lab_at + 1) .. Len(LabDays), tok \in LabTokens :
        \E h \in {HandleRow([day_str |-> LabDays[k], time |-> tok], lab_lvd, lab_start,
                              LabToday, timezone)} :
            /\ lab_at' = k
            /\ lab_lvd' = h.lvd
            /\ lab_dates' = Append(lab_dates, [day_str |-> LabDays[k], date |-> h.lvd])
            /\ UNCHANGED <<lab_start, scrapVars, calVars, utilVars, resVars, convVars,
                           siteVars>>

\* Lines 102-170 for a row without a day label (a further row of the day).
UnlabelledRow ==
    /\ lab_at > 0
    /\ \E tok \in LabTokens \ {<<>>} :
          \E h \in {HandleRow([day_str |-> NoLabel, time |-> tok], lab_lvd, lab_start,
                                LabToday, timezone)} :
              lab_lvd' = h.lvd
    /\ UNCHANGED <<lab_start, lab_at, lab_dates, scrapVars, calVars, utilVars, resVars,
                   convVars, siteVars>>

LabNext == LabelledRow \/ UnlabelledRow

LabSpec == LabInit /\ [][LabNext]_vars

(***************************************************************************)
(* Scrape sessions against a site that serves its calendar: the page of a  *)
(* window lists the events of the Sunday-to-Saturday week of the date in   *)
(* the URL, in display order, the day label on the first row of each day.  *)
(* An event is [year, month, day, time]: its date and its time token as    *)
(* the site displays them.                                                 *)
(***************************************************************************)
\* The most sessions run one after another on the same dataset.
MaxSessions == 2

\* The events the site may hold, in display order: the all-day row of a day
\* precedes its timed rows.
Calendar ==
    << [year |-> 2007, month |-> 1, day |-> 3,
        time |-> <<"1", "2", ":", "0", "5", "p", "m">>],
       [year |-> 2007, month |-> 1, day |-> 7,
        time |-> <<"7", ":", "3", "0", "p", "m">>],
       [year |-> 2007, month |-> 1, day |-> 9,
        time |-> <<"A", "l", "l", " ", "D", "a", "y">>],
       [year |-> 2007, month |-> 1, day |-> 9,
        time |-> <<"7", ":", "3", "0", "a", "m">>],
       [year |-> 2007, month |-> 1, day |-> 10,
        time |-> <<"7", ":", "3", "0", "a", "m">>] >>

RECURSIVE SubSeqsOf(_)
SubSeqsOf(q) ==
    IF q = <<>>
    THEN {<<>>}
    ELSE LET rest == SubSeqsOf(Tail(q))
         IN  rest \cup {<<Head(q)>> \o r : r \in rest}

Sites == SubSeqsOf(Calendar)

\* "Now" in the target zone when session n starts: a day after the session
\* before it.
SessionNow(n) == AddDays(DateTime(2007, 1, 9, 10, 0, 0, timezone), n - 1)

\* date.isoweekday() of a date given by its ordinal: 1 is Monday, 7 Sunday.
isoweekday(ord) == ((ord - 1) % 7) + 1

\* The ordinal of the day that starts the week of a date: the Sunday on or
\* before it (dt_is_start_of_week: isoweekday() % 7 == 0).
WeekStart(ord) == ord - (isoweekday(ord) % 7)

WeekdayNames == <<"Mon", "Tue", "Wed", "Thu", "Fri", "Sat", "Sun">>

\* The day label the site shows for an event's date.
LabelOf(e) == Label(WeekdayNames[isoweekday(ToOrdinal(e))], MonthName[e.month], e.day)

\* The date the week token of a URL names ("jan8.2007").
UrlDate(url) ==
    [year |-> url.year,
     month |-> CHOOSE m \in 1 .. 12 : MonthAbbr[m] = url.mon,
     day |-> url.day]

\* The events of the week of date d, in display order.
PageEvents(s, d) ==
    SelectSeq(s, LAMBDA e : WeekStart(ToOrdinal(e)) = WeekStart(ToOrdinal(d)))

\* The rows of a page showing events evs: [row, ev].
PageRows(evs) ==
    [k \in 1 .. Len(evs) |->
        [row |-> [day_str |-> IF k = 1 \/ ToOrdinal(evs[k]) # ToOrdinal(evs[k - 1])
                              THEN LabelOf(evs[k])
                              ELSE NoLabel,
                  time |-> evs[k].time],
         ev |-> evs[k]]]

SiteInit ==
    /\ pc = "start"
    /\ driver = [state |-> "none", quits |-> 0]
    /\ ff_timezone = 0
    /\ start_date = None
    /\ today = 0
    /\ week_count = 0
    /\ date_url = NoUrl
    /\ last_valid_date = None
    /\ table_row = NoRow
    /\ rows_left = 0
    /\ rows_fetched = 0
    /\ file = NoFile
    /\ errors = <<>>
    /\ exc = "none"
    /\ now = SessionNow(1)
    /\ file0 = file
    /\ cursor0 = None
    /\ appended = <<>>
    /\ CalIdle
    /\ UtilIdle
    /\ ResIdle
    /\ ConvIdle
    /\ LabIdle
    /\ site \in Sites
    /\ page = <<>>
    /\ written = <<>>
    /\ sessions = 1

\* Lines 85-101: the site serves the page of the week in the URL.
SiteFetch ==
    /\ pc = "fetch"
    /\ \E rows \in {PageRows(PageEvents(site, UrlDate(date_url)))} :
          /\ page' = rows
          /\ rows_left' = Len(rows)
          /\ rows_fetched' = rows_fetched + Len(rows)
          /\ errors' = IF Len(rows) = 0
                       THEN errors \o <<"No calendar rows found", "Table HTML snapshot">>
                       ELSE errors
    /\ last_valid_date' = None
    /\ pc' = "rows"
    /\ UNCHANGED <<driver, ff_timezone, start_date, today, week_count, date_url,
                   table_row, file, exc, now, file0, cursor0, appended>>
    /\ UNCHANGED <<calVars, utilVars, resVars, convVars, labVars, site, written,
                   sessions>>

\* Lines 102-170: one pass of the row loop, on the next row of the page.
SiteRow ==
    /\ pc = "rows"
    /\ page # <<>>
    /\ \E row \in {page[1].row} :
          \E h \in {HandleRow(row, last_valid_date, start_date, today, ff_timezone)} :
              /\ table_row' = row
              /\ last_valid_date' = h.lvd
              /\ errors' = errors
                           \o (IF h.dateErr THEN <<"Error parsing date">> ELSE <<>>)
                           \o (IF h.how = "raise" THEN <<"Error">> ELSE <<>>)
              /\ file' = IF h.how = "write" THEN writerow(file, h.lvd) ELSE file
              /\ appended' = IF h.how = "write"
                             THEN Append(appended, [row |-> row, lvd |-> h.lvd])
                             ELSE appended
              /\ written' = IF h.how = "write"
                            THEN Append(written, [ev |-> page[1].ev, lvd |-> h.lvd])
                            ELSE written
              /\ page' = IF h.how = "break" THEN <<>> ELSE Tail(page)
              /\ rows_left' = IF h.how = "break" THEN 0 ELSE rows_left - 1
    /\ UNCHANGED <<pc, driver, ff_timezone, start_date, today, week_count,
                   date_url, rows_fetched, exc, now, file0, cursor0>>
    /\ UNCHANGED <<calVars, utilVars, resVars, convVars, labVars, site, sessions>>

\* Lines 275-283: the program is run again, a day later, on the dataset the
\* session before left.
NextSession ==
    /\ pc = "done"
    /\ sessions < MaxSessions
    /\ sessions' = sessions + 1
    /\ pc' = "start"
    /\ driver' = [state |-> "none", quits |-> 0]
    /\ ff_timezone' = 0
    /\ start_date' = None
    /\ today' = 0
    /\ week_count' = 0
    /\ date_url' = NoUrl
    /\ last_valid_date' = None
    /\ table_row' = NoRow
    /\ rows_left' = 0
    /\ rows_fetched' = 0
    /\ errors' = <<>>
    /\ exc' = "none"
    /\ now' = SessionNow(sessions + 1)
    /\ file0' = file
    /\ cursor0' = None
    /\ appended' = <<>>
    /\ written' = <<>>
    /\ page' = <<>>
    /\ UNCHANGED <<file, site, calVars, utilVars, resVars, convVars, labVars>>

SiteNext ==
    \/ SetupDriver
    \/ GetTimezone
    \/ GetStartDt
    \/ Loop
    \/ SiteFetch
    \/ SiteRow
    \/ EndWindow
    \/ NextSession

SiteSpec == SiteInit /\ [][SiteNext]_vars

(***************************************************************************)
(* Properties.                                                             *)
(***************************************************************************)
IsPrefix(a, b) == Len(a) <= Len(b) /\ SubSeq(b, 1, Len(a)) = a

Last(q) == q[Len(q)]

\* The resume-point reader has returned (the session is in its window loop or
\* past it).
ReaderReturned == cursor0 # None

\* The dataset the session found is n >= 1 whole record lines.
WholeLines(f) ==
    f.exists /\ f.chunks # <<>> /\ \A i \in 1 .. Len(f.chunks) : f.chunks[i].len = LineLen

\* The bytes of a file up to and with its last newline: its complete lines.
LastNewline(bytes, at) == IF at = {} THEN 0 ELSE CHOOSE j \in at : \A k \in at : k <= j

CompleteBytes(bytes) ==
    SubSeq(bytes, 1, LastNewline(bytes, {j \in 1 .. Len(bytes) : bytes[j] = "\n"}))

TimeOfDay(dt) == <<dt.hour, dt.minute, dt.second>>

TokAllDay == <<"A", "l", "l", " ", "D", "a", "y">>

TokNoData == <<"N", "o", " ", "D", "a", "t", "a">>

Tok730am == <<"7", ":", "3", "0", "a", "m">>

Tok730pm == <<"7", ":", "3", "0", "p", "m">>

Tok1205am == <<"1", "2", ":", "0", "5", "a", "m">>

Tok1205pm == <<"1", "2", ":", "0", "5", "p", "m">>

\* The time-of-day the specification states for a time token; <<-1, -1, -1>>
\* for a token it states none for.
ClaimedTime(tok) ==
    CASE tok = TokAllDay -> <<23, 59, 59>>
      [] tok = TokNoData -> <<0, 0, 1>>
      [] tok = Tok730am -> <<7, 30, 0>>
      [] tok = Tok730pm -> <<19, 30, 0>>
      [] tok = Tok1205am -> <<0, 5, 0>>
      [] tok = Tok1205pm -> <<12, 5, 0>>
      [] OTHER -> <<-1, -1, -1>>

\* C1: every record a session appends has a resolved date-time strictly after
\* the cursor the resume-point reader returned at the session's start.
C1_AppendedAfterStartCursor ==
    \A i \in 1 .. Len(appended) : Instant(appended[i].lvd) > Instant(cursor0)

\* C1 witness: a resumed session (cursor read from the dataset's last line)
\* has appended a record and reached Done.
C1_Witness == pc = "done" /\ cursor0 = Rec2 /\ appended # <<>>

\* C2: no appended record has a resolved date-time after "now".
C2_NoRecordAfterNow ==
    \A i \in 1 .. Len(appended) : Instant(appended[i].lvd) <= Instant(now)

\* C3: a page-fetch failure does not abort the session.
C3_FetchFailureNonFatal == ~(pc = "failed" /\ exc = "fetch")

\* C4: for a dataset of n >= 1 whole record lines the reader returns the
\* timestamp of the last line.
C4_ResumeFromLastLine ==
    (ReaderReturned /\ WholeLines(file0)) => cursor0 = Last(file0.chunks).dt

\* The dataset the session found is empty, or ends in a torn record whose
\* leading field does not parse.
EmptyOrTorn(f) ==
    /\ f.exists
    /\ \/ f.chunks = <<>>
       \/ /\ Last(f.chunks).len < LineLen
          /\ fromisoformat(Slice(ChunkBytes(Last(f.chunks)), 0, 25)) = Raised

\* C5: on an empty dataset or one ending in a torn record the reader does not
\* fail; it returns the epoch start and keeps the complete lines.
C5_TornTailRecovered ==
    EmptyOrTorn(file0) =>
        /\ exc # "get_start_dt"
        /\ ReaderReturned =>
              /\ cursor0 = Epoch(ff_timezone)
              /\ IsPrefix(CompleteBytes(FileBytes(file0.chunks)), FileBytes(file.chunks))

\* C6: the complete record lines the session found stay in the dataset, in
\* place, in every state of the session.
C6_AppendOnly ==
    IsPrefix(CompleteBytes(FileBytes(file0.chunks)), FileBytes(file.chunks))

\* The row just handled carries a time token the specification gives a time
\* for, has a resolved date, and that date passes the start-cursor and cutoff
\* rules.
HandledDatedRow ==
    /\ pc = "rows"
    /\ table_row # NoRow
    /\ ClaimedTime(table_row.time) # <<-1, -1, -1>>
    /\ last_valid_date # None
    /\ ~AlreadySeen(last_valid_date, start_date)
    /\ ~AfterToday(last_valid_date, today)

\* C7 as stated: a dated row passing the start-cursor and cutoff rules yields
\* a record whose time-of-day is the one stated for its token ("Day", "Data"
\* or a clock token).
C7_TokenYieldsStatedTime ==
    HandledDatedRow =>
        /\ appended # <<>>
        /\ Last(appended).row = table_row
        /\ TimeOfDay(Last(appended).lvd) = ClaimedTime(table_row.time)

\* C7 as amended: every record yielded from a row with a time token has, in
\* the display zone, the time-of-day stated for "Day" (23:59:59) or for the
\* clock token, and the dataset line holds that instant; a row whose token
\* contains "Data" resolves to 00:00:01, yields no record and is logged.
C7_YieldedTimeOfDay ==
    /\ \A i \in 1 .. Len(appended) :
          appended[i].row.time # <<>> =>
              /\ ~Contains(appended[i].row.time, TData)
              /\ TimeOfDay(appended[i].lvd) = ClaimedTime(appended[i].row.time)
    /\ appended # <<>> =>
          Instant(fromisoformat(Slice(ChunkBytes(Last(file.chunks)), 0, 25)))
              = Instant(Last(appended).lvd)
    /\ (HandledDatedRow /\ Contains(table_row.time, TData)) =>
          /\ TimeOfDay(last_valid_date) = <<0, 0, 1>>
          /\ appended # <<>> => Last(appended).row # table_row
          /\ errors # <<>> /\ Last(errors) = "Error"

\* C7 witness: a "12:05am" row and an "All Day" row were both yielded.
C7_Witness ==
    /\ \E i \in 1 .. Len(appended) : appended[i].row.time = Tok1205am
    /\ \E i \in 1 .. Len(appended) : appended[i].row.time = TokAllDay

\* The label parses as a day of some year.
LabelParses(day_str) == \E y \in {2007, 2008} : strptime(y, day_str, 0) # Raised

\* C8: a row whose day label or time token fails to parse produces no record.
C8_BadRowYieldsNoRecord ==
    \A i \in 1 .. Len(appended) :
        /\ appended[i].row.day_str # NoLabel => LabelParses(appended[i].row.day_str)
        /\ appended[i].row.time # <<>> =>
              ResolveTime(appended[i].lvd, appended[i].row.time) # Raised

\* C9: once acquired, the page fetcher is released exactly once on every way
\* out of the session, and not before.
C9_ReleasedExactlyOnce ==
    /\ pc \in Ends => driver = [state |-> "quit", quits |-> 1]
    /\ pc \notin Ends \cup {"start"} => driver = [state |-> "open", quits |-> 0]

\* C9 witness: the session was left by an exception of the resume-point
\* reader, the fetcher released.
C9_Witness == pc = "failed" /\ exc = "get_start_dt" /\ driver.quits = 1

\* C10: every window iteration moves the cursor on by one week, the cursor
\* never decreases, and the driver, once in its loop, reaches Done unless a
\* fetch raises.
C10_DriverTerminates ==
    /\ [][(pc \in {"fetch", "rows"} /\ pc' = "loop")
            => DateOf(start_date') = DateOf(start_date) + 7]_vars
    /\ [][(start_date # None /\ start_date' # None)
            => Instant(start_date') >= Instant(start_date)]_vars
    /\ (pc = "loop") ~> (pc = "done" \/ (pc = "failed" /\ exc = "fetch"))

\* C10 witness: Done reached after two windows, one without a calendar table.
C10_Witness ==
    pc = "done" /\ week_count = 1 /\ errors # <<>> /\ errors[1] = "No calendar table found"

\* C11: each cursor get_next_dt returns for mode day, week or month is
\* strictly after the cursor it was computed from, so next(next(c, g), g) is
\* after next(c, g); any other mode raises ValueError.
C11_StrictForwardProgress ==
    /\ cal_mode \in {"day", "week", "month"} =>
          \A i \in 1 .. Len(cal_dates) - 1 :
              /\ cal_dates[i + 1] # Raised
              /\ Instant(cal_dates[i + 1]) > Instant(cal_dates[i])
    /\ (cal_mode \notin {"", "day", "week", "month"} /\ Len(cal_dates) > 1) =>
          cal_dates[2] = Raised

\* C11 witness: the month after the month after 31 December, 23:59:59.
C11_Witness ==
    /\ cal_mode = "month"
    /\ Len(cal_dates) = 3
    /\ cal_dates[1] = DateTime(2007, 12, 31, 23, 59, 59, timezone)
    /\ cal_dates[3] = DateTime(2008, 2, 1, 0, 0, 59, timezone)

\* The rows csv.reader yields for a content's lines.
RowsOf(lines) == [k \in 1 .. Len(lines) |-> csv_reader(lines[k])]

\* A row is blank except for its date: it has a date, every other field is
\* empty or whitespace.
BlankButDate(row) ==
    row[1] # <<>> /\ \A k \in 2 .. Len(row) : row[k] \in SeqsUpTo(Whitespace, Len(row[k]))

\* Line k holds the first occurrence of a field tuple that is not blank
\* except for its date.
FirstOccurrence(lines, k) ==
    /\ ~BlankButDate(csv_reader(lines[k]))
    /\ \A j \in 1 .. k - 1 : csv_reader(lines[j]) # csv_reader(lines[k])

RECURSIVE FirstOccurrencesFrom(_, _)
FirstOccurrencesFrom(lines, k) ==
    IF k > Len(lines) THEN <<>>
    ELSE (IF FirstOccurrence(lines, k) THEN <<lines[k]>> ELSE <<>>)
             \o FirstOccurrencesFrom(lines, k + 1)

\* The lines the cleanup is to leave.
Cleaned(lines) == FirstOccurrencesFrom(lines, 1)

\* C12: a run of the cleanup leaves exactly the first occurrence of each field
\* tuple that is not blank except for its date, in the original order; a
\* second run on that output marks no line and leaves it as it is.
C12_FirstOccurrencesKept ==
    /\ (u_pc = "end" /\ runs = 1) =>
          /\ original_file.exists
          /\ RowsOf(original_file.lines) = RowsOf(Cleaned(input0.lines))
    /\ (u_pc = "end" /\ runs = 2) =>
          /\ lineNumbers = <<>>
          /\ original_file = output1

\* C12 witness: both runs are over on the rows [A, A, B, date-only, B], which
\* became [A, B].
C12_Witness ==
    /\ u_pc = "end"
    /\ runs = 2
    /\ input0 = Content(<<LineA, LineA, LineB, LineD, LineB>>)
    /\ original_file = Content(<<LineA, LineB>>)

\* C13: in every state of delete_multiple_lines the dataset path holds the
\* whole original content or the whole cleaned content; with no line marked
\* the file is not modified and no '.bak' file exists.
C13_AtomicReplace ==
    (u_pc # "off" /\ runs = 1) =>
        /\ original_file \in {input0, Content(Cleaned(input0.lines))}
        /\ (u_pc \in {"copy", "remove", "rename", "end"} /\ lineNumbers = <<>>) =>
              original_file = input0 /\ dummy_file = Absent

\* C14: two calls of the resume-point reader on a dataset nothing else
\* writes both return a cursor, and the same one.
C14_SameCursorTwice ==
    Len(res_rets) = 2 => (res_rets[1] # Raised /\ res_rets[2] = res_rets[1])

\* A text is all whitespace (empty included).
AllBlank(c) == \A k \in 1 .. Len(c) : c[k] \in Whitespace

\* The whitespace-trimmed cell: the part of c between its leading and its
\* trailing whitespace.
Trimmed(c) ==
    IF AllBlank(c) THEN <<>>
    ELSE SubSeq(c, CHOOSE a \in 1 .. Len(c) :
                       c[a] \notin Whitespace /\ AllBlank(SubSeq(c, 1, a - 1)),
                   CHOOSE b \in 1 .. Len(c) :
                       c[b] \notin Whitespace /\ AllBlank(SubSeq(c, b + 1, Len(c))))

\* The rows read so far that are not fully blank, by number.
RowsKept == {k \in 1 .. row_num : \E m \in 1 .. Len(csv_reader(csvfile[k])) :
                                    ~AllBlank(csv_reader(csvfile[k])[m])}

\* The number of the j-th kept row.
KeptRow(j) == CHOOSE k \in RowsKept : Cardinality({m \in RowsKept : m <= k}) = j

\* C15: the events are one record per row read that is not fully blank, in
\* input order, each with exactly the seven keys; key i holds the trimmed i-th
\* cell of its row, or the empty string beyond the row's length.
C15_OneRecordPerRow ==
    /\ Len(events) = Cardinality(RowsKept)
    /\ \A j \in 1 .. Len(events) :
          /\ DOMAIN events[j] = {"date", "country", "impact", "title", "actual",
                                 "forecast", "previous"}
          /\ \A k \in 1 .. 7 :
                events[j][column_names[k]] =
                    IF k <= Len(csv_reader(csvfile[KeptRow(j)]))
                    THEN Trimmed(csv_reader(csvfile[KeptRow(j)])[k])
                    ELSE <<>>

\* C15 witness: a three-cell row, an empty line and a seven-cell row with
\* whitespace were converted to two events.
C15_Witness ==
    /\ csvfile = <<CsvThree, CsvEmpty, CsvSeven>>
    /\ row_num = 3
    /\ Len(events) = 2
    /\ events[1].impact = <<"H">> /\ events[1].title = <<>>
    /\ events[2].date = <<"d">> /\ events[2].title = <<"t", " ", "n">>

\* C16: in a window the first labelled row takes the cursor's year; a January
\* label next after a December label resolves to the year after the December
\* row's; the resolved dates of labelled rows never decrease.
C16_YearTracking ==
    /\ lab_dates # <<>> => lab_dates[1].date.year = lab_start.year
    /\ \A k \in 1 .. Len(lab_dates) - 1 :
          /\ (lab_dates[k].day_str.b = "Dec" /\ lab_dates[k + 1].day_str.b = "Jan") =>
                lab_dates[k + 1].date.year = lab_dates[k].date.year + 1
          /\ DateOf(lab_dates[k + 1].date) >= DateOf(lab_dates[k].date)

\* The date-time of a source event in the site's display zone, by the
\* time-of-day its token stands for.
EventTime(e, tz) ==
    DateTime(e.year, e.month, e.day, ClaimedTime(e.time)[1], ClaimedTime(e.time)[2],
             ClaimedTime(e.time)[3], tz)

\* The source events of the session's range: date-time strictly after the
\* start cursor, date not after today.
InRange(e) ==
    /\ Instant(EventTime(e, ff_timezone)) > Instant(cursor0)
    /\ ToOrdinal(e) <= today

\* How many records the session appended for event e.
TimesWritten(e) == Cardinality({k \in 1 .. Len(written) : written[k].ev = e})

\* C17: against a site whose fetches work, whose timezone is detected and
\* whose labels parse, by the time the session reaches Done every source event
\* with a date-time strictly after the start cursor and a date not after today
\* has been appended exactly once, and no event has been appended twice.
C17_CompleteNoDuplicates ==
    (pc = "done" /\ exc = "none" /\ sessions > 0)
        => \A k \in 1 .. Len(site) :
              /\ TimesWritten(site[k]) <= 1
              /\ InRange(site[k]) => TimesWritten(site[k]) = 1

\* C18: in a dataset built by scrape sessions from an absent file, against
\* pages in the site's display order, the timestamps of the record lines
\* never decrease down the file.
C18_ChronologicalRecords ==
    sessions > 0
        => \A k \in 1 .. (Len(file.chunks) - 1) :
              Instant(file.chunks[k].dt) <= Instant(file.chunks[k + 1].dt)

=============================================================================
